---- MODULE Spec2Model ----
(***************************************************************************)
(* Model of the video upload backend (src/video_upload_backend/src/api/    *)
(* main.py): the declared-size precheck, the preparation of the upload     *)
(* directory and the streamed, size-bounded receive loop of upload_video,  *)
(* over a small POSIX-like file system (directories, directory entries,    *)
(* inodes and open file handles).                                          *)
(*                                                                         *)
(* Sizes are scaled: the code compares lengths with MAX_VIDEO_SIZE_BYTES   *)
(* and chunk_size only by <, > and +, so the limit and the chunk size are  *)
(* small numbers here and one unit of the model is one byte.               *)
(***************************************************************************)
EXTENDS Integers, Sequences, FiniteSets, TLC

\* ------------------------------------------------------------------ bounds
MaxBytes == 2
MaxRequests == 2
MaxNameLen == 2

\* ------------------------------------------------------- program constants
MAX_VIDEO_SIZE_BYTES == MaxBytes
chunk_size == 2
UPLOAD_DIR == << <<"u", "p", "l", "o", "a", "d">> >>

HTTP_200_OK == 200
HTTP_400_BAD_REQUEST == 400
HTTP_413_REQUEST_ENTITY_TOO_LARGE == 413
HTTP_500_INTERNAL_SERVER_ERROR == 500

\* ------------------------------------------------------------ small helpers
Slots == {1, 2}
None == <<"None">>
NoFile == [ino |-> 0, pos |-> 0]
NoSize == [some |-> FALSE, val |-> 0]
Size(n) == [some |-> TRUE, val |-> n]
Hole == <<0, 0>>

Min(a, b) == IF a < b THEN a ELSE b

\* All sequences over S of length at most n.
SeqsUpTo(S, n) == UNION {[1..k -> S] : k \in 0..n}

Digits == <<"0", "1", "2", "3", "4", "5", "6", "7", "8", "9">>
IsDigit(c) == \E d \in 1..10 : Digits[d] = c
DigitValue(c) == (CHOOSE d \in 1..10 : Digits[d] = c) - 1
IsSpace(c) == c = " "

\* str.strip(): drop leading and trailing whitespace.
RECURSIVE LStrip(_)
LStrip(s) == IF s # <<>> /\ IsSpace(Head(s)) THEN LStrip(Tail(s)) ELSE s
RECURSIVE RStrip(_)
RStrip(s) ==
  IF s # <<>> /\ IsSpace(s[Len(s)]) THEN RStrip(SubSeq(s, 1, Len(s) - 1)) ELSE s
Strip(s) == RStrip(LStrip(s))

\* The value of a non-empty run of decimal digits.
RECURSIVE DigitsValue(_)
DigitsValue(s) ==
  IF s = <<>> THEN 0
  ELSE 10 * DigitsValue(SubSeq(s, 1, Len(s) - 1)) + DigitValue(s[Len(s)])

\* int(text): surrounding whitespace is dropped, one optional sign, then one or
\* more decimal digits; anything else raises ValueError.
PyInt(text) ==
  LET t == Strip(text)
      signed == t # <<>> /\ Head(t) \in {"-", "+"}
      body == IF signed THEN Tail(t) ELSE t
      good == body # <<>> /\ \A i \in 1..Len(body) : IsDigit(body[i])
  IN IF ~good THEN [ok |-> FALSE, val |-> 0]
     ELSE [ok |-> TRUE,
           val |-> IF signed /\ Head(t) = "-" THEN 0 - DigitsValue(body)
                   ELSE DigitsValue(body)]

\* str.rfind("/") + 1: the index after the last separator, 0 when there is none.
RECURSIVE RFindSepPlus1(_)
RFindSepPlus1(p) ==
  IF p = <<>> THEN 0
  ELSE IF p[Len(p)] = "/" THEN Len(p)
  ELSE RFindSepPlus1(SubSeq(p, 1, Len(p) - 1))

\* The basename forgotten: the whole client-supplied name is kept.
Basename_Whole(p) == p

\* os.path.basename(p): p[p.rfind("/") + 1:].
Basename(p) == SubSeq(p, RFindSepPlus1(p) + 1, Len(p))

\* ------------------------------------------------------------- file system
\* A path is a sequence of components from the root; a component is a sequence
\* of characters.
Root == <<>>
Parent(path) == IF path = <<>> THEN <<>> ELSE SubSeq(path, 1, Len(path) - 1)

\* The components of a name, split at every "/".
RECURSIVE Split(_)
Split(name) ==
  LET i == RFindSepPlus1(name)
  IN IF i = 0 THEN <<name>>
     ELSE Append(Split(SubSeq(name, 1, i - 1)), SubSeq(name, i + 1, Len(name)))

\* Path resolution from directory cur: "" and "." stay, ".." goes to the parent,
\* and every component but the last is looked up in an existing directory.
RECURSIVE Walk(_, _, _)
Walk(ds, cur, comps) ==
  IF comps = <<>> THEN [ok |-> TRUE, path |-> cur]
  ELSE IF cur \notin ds THEN [ok |-> FALSE, path |-> cur]
  ELSE LET c == Head(comps)
       IN IF c = <<>> \/ c = <<".">> THEN Walk(ds, cur, Tail(comps))
          ELSE IF c = <<".", ".">> THEN Walk(ds, Parent(cur), Tail(comps))
          ELSE Walk(ds, Append(cur, c), Tail(comps))

\* One fixed destination for every upload, whatever its filename.
DestinationPath_Shared(ds, name) == Walk(ds, UPLOAD_DIR, << <<"a">> >>)

\* UPLOAD_DIR / safe_filename, resolved: pathlib restarts at the root when the
\* right operand is absolute.
DestinationPath(ds, name) ==
  IF name # <<>> /\ Head(name) = "/" THEN Walk(ds, Root, Split(name))
  ELSE Walk(ds, UPLOAD_DIR, Split(name))

\* A regular file can be created or truncated at the resolved path.
CanOpen(ds, name) ==
  LET r == DestinationPath(ds, name)
  IN r.ok /\ r.path \notin ds /\ Parent(r.path) \in ds

EmptyMap == [x \in {} |-> 0]
Remove(f, x) == [y \in DOMAIN f \ {x} |-> f[y]]
Range(f) == {f[x] : x \in DOMAIN f}

\* The lowest inode number not in use.
FreshIno(ino) == CHOOSE i \in 1..(Cardinality(DOMAIN ino) + 1) : i \notin DOMAIN ino

\* An inode lives while a directory entry or an open handle refers to it.
Collect(f, rq, ino) ==
  [i \in {j \in DOMAIN ino : j \in Range(f) \/ \E s \in DOMAIN rq : rq[s].out_file.ino = j}
     |-> ino[i]]

\* write() at offset pos: a gap between the end of the file and pos reads as holes.
WriteAt(content, pos, data) ==
  LET padded == content \o [i \in 1..(pos - Len(content)) |-> Hole]
  IN SubSeq(padded, 1, pos) \o data \o SubSeq(padded, pos + Len(data) + 1, Len(padded))

\* ------------------------------------------------------------------ inputs
\* str(n) for 0 <= n < 100.
Numeral(n) == IF n < 10 THEN <<Digits[n + 1]>> ELSE <<Digits[(n \div 10) + 1], Digits[(n % 10) + 1]>>

\* Content-Length headers: absent, every size up to one over the limit, a
\* negative size, and text that is no number.
Headers ==
  {None} \cup {Numeral(n) : n \in 0..(MAX_VIDEO_SIZE_BYTES + 1)}
         \cup {<<"-", "1">>, <<"x">>, <<>>}

\* Filenames of the file part: missing, empty, plain, and with directories.
FewNames ==
  {None, <<>>, <<"/">>, <<"a">>, <<"b">>, <<"/", "a">>, <<"a", "/">>, <<" ", "a">>,
   <<".", ".">>}

\* Every filename of at most MaxNameLen characters, a missing one, and one
\* that climbs out of the upload directory.
NameChars == {"/", ".", " ", "a"}
Traversal == <<".", ".", "/", "a">>
Names == {None, Traversal} \cup SeqsUpTo(NameChars, MaxNameLen)

\* Lengths of content streams: up to a full chunk over the limit.
StreamLens == 0..(MAX_VIDEO_SIZE_BYTES + chunk_size)

\* The content stream of request id: len bytes, each one distinct.
Body(id, len) == [i \in 1..len |-> <<id, i>>]

\* -------------------------------------------------------------------- state
VARIABLES
  dirs,      \* the directories that exist
  dir_mode,  \* permission bits of UPLOAD_DIR: "default" or "0700"
  files,     \* directory entries of regular files: path -> inode number
  inode,     \* inode number -> content, for every inode in use
  started,   \* number of requests received so far
  req        \* per handler slot: the request it serves

vars == <<dirs, dir_mode, files, inode, started, req>>

Idle ==
  [pc |-> "idle", id |-> 0, header |-> None, filename |-> None, body |-> <<>>,
   declared |-> NoSize, rpos |-> 0, safe_filename |-> <<>>, total_written |-> 0, chunk |-> <<>>,
   out_file |-> NoFile, pending |-> 0, status_code |-> 0, detail |-> <<>>,
   size_bytes |-> 0,
   \* history, for stating properties: what the request has done so far
   reads |-> 0, entered |-> FALSE, opened |-> FALSE, overlapped |-> FALSE,
   input_closed |-> FALSE, io_error |-> "", unlink_failed |-> FALSE]

Init ==
  /\ dirs \in {{Root}, {Root, UPLOAD_DIR}}
  /\ dir_mode = "default"
  /\ files = EmptyMap
  /\ inode = EmptyMap
  /\ started = 0
  /\ req = [s \in Slots |-> Idle]

\* The request record after the system call named op raised an exception.
Raised(r, op) == [r EXCEPT !.io_error = IF @ = "" THEN op ELSE @]

\* f"File too large. Maximum allowed size is {MAX_VIDEO_SIZE_BYTES} bytes (500MB)."
TooLargeDetail ==
  <<"File too large. Maximum allowed size is ">> \o Numeral(MAX_VIDEO_SIZE_BYTES)
    \o <<" bytes (500MB).">>

\* The body of the plain 500 the server sends for an exception that is no
\* HTTPException: it does not pass through http_exception_handler.
InternalServerError == <<"Internal Server Error">>

\* The response of a finished request; text is the detail, a sequence of the
\* pieces of the message.
Respond(r, code, text) ==
  [r EXCEPT !.pc = "done", !.status_code = code, !.detail = text]

\* A request arrives at slot s with its Content-Length header, the filename of
\* its file part and its content stream.
Receive(s, header, filename, len) ==
  /\ started' = started + 1
  /\ req' = [req EXCEPT ![s] =
        [Idle EXCEPT !.pc = "precheck", !.id = started + 1, !.header = header,
                     !.filename = filename, !.body = Body(started + 1, len)]]
  /\ UNCHANGED <<dirs, dir_mode, files, inode>>

\* The precheck with the comparison off by one: size >= MAX_VIDEO_SIZE_BYTES.
ValidateContentLength_GE(r) ==
  IF r.header = None THEN [r EXCEPT !.pc = "prepare", !.declared = NoSize]
  ELSE LET size == PyInt(r.header)
       IN IF ~size.ok
            THEN [r EXCEPT !.pc = "done", !.status_code = HTTP_400_BAD_REQUEST,
                           !.detail = <<"Invalid Content-Length header.">>]
          ELSE IF size.val >= MAX_VIDEO_SIZE_BYTES
            THEN [r EXCEPT !.pc = "done",
                           !.status_code = HTTP_413_REQUEST_ENTITY_TOO_LARGE,
                           !.detail = TooLargeDetail]
          ELSE [r EXCEPT !.pc = "prepare", !.declared = Size(size.val)]

\* The precheck without its size comparison.
ValidateContentLength_NoLimit(r) ==
  IF r.header = None THEN [r EXCEPT !.pc = "prepare", !.declared = NoSize]
  ELSE LET size == PyInt(r.header)
       IN IF ~size.ok
            THEN [r EXCEPT !.pc = "done", !.status_code = HTTP_400_BAD_REQUEST,
                           !.detail = <<"Invalid Content-Length header.">>]
          ELSE [r EXCEPT !.pc = "prepare", !.declared = Size(size.val)]

\* _validate_content_length, the dependency that runs before upload_video; the
\* value it returns (None or the size) is the handler's argument declared.
ValidateContentLength(r) ==
  IF r.header = None THEN [r EXCEPT !.pc = "prepare", !.declared = NoSize]
  ELSE LET size == PyInt(r.header)
       IN IF ~size.ok
            THEN Respond(r, HTTP_400_BAD_REQUEST, <<"Invalid Content-Length header.">>)
          ELSE IF size.val > MAX_VIDEO_SIZE_BYTES
            THEN Respond(r, HTTP_413_REQUEST_ENTITY_TOO_LARGE, TooLargeDetail)
          ELSE [r EXCEPT !.pc = "prepare", !.declared = Size(size.val)]

Precheck(s) ==
  /\ req[s].pc = "precheck"
  /\ req' = [req EXCEPT ![s] = ValidateContentLength(req[s])]
  /\ UNCHANGED <<dirs, dir_mode, files, inode, started>>

\* mkdir without exist_ok: a directory that is already there is an error.
MkdirCanFail_NoExistOk(ds) == TRUE

\* UPLOAD_DIR.mkdir(parents=True, exist_ok=True) has nothing to create, and so
\* nothing to fail at, when the directory is already there.
MkdirCanFail(ds) == UPLOAD_DIR \notin ds

\* ensure_upload_dir_exists: mkdir(parents=True, exist_ok=True), then a
\* best-effort chmod whose PermissionError alone is ignored; any other
\* exception becomes a 500. mk and ch are the outcomes of the two system calls.
Prepare(s) ==
  /\ req[s].pc = "prepare"
  /\ \E mk \in {"ok", "OSError"}, ch \in {"ok", "PermissionError", "OSError"} :
       /\ mk = "OSError" => MkdirCanFail(dirs) /\ ch = "ok"
       /\ dirs' = IF mk = "ok" THEN dirs \cup {UPLOAD_DIR} ELSE dirs
       /\ dir_mode' = IF mk = "ok" /\ ch = "ok" THEN "0700" ELSE dir_mode
       /\ req' = [req EXCEPT ![s] =
             IF mk = "ok" /\ ch \in {"ok", "PermissionError"}
               THEN [@ EXCEPT !.pc = "sanitize", !.entered = TRUE]
             ELSE Respond(Raised([@ EXCEPT !.entered = TRUE],
                                 IF mk = "ok" THEN "chmod" ELSE "mkdir"),
                          HTTP_500_INTERNAL_SERVER_ERROR,
                          <<"Failed to prepare upload directory: ",
                            IF mk = "ok" THEN "chmod" ELSE "mkdir">>)]
  /\ UNCHANGED <<files, inode, started>>

\* The sanitization without its strip().
SafeFilename_NoStrip(filename) == Basename(IF filename = None THEN <<>> ELSE filename)

\* safe_filename = os.path.basename(file.filename or "").strip()
SafeFilename(filename) == Strip(Basename(IF filename = None THEN <<>> ELSE filename))

Sanitize(s) ==
  /\ req[s].pc = "sanitize"
  /\ LET safe_filename == SafeFilename(req[s].filename)
     IN req' = [req EXCEPT ![s] =
          IF safe_filename = <<>>
            THEN Respond(@, HTTP_400_BAD_REQUEST, <<"Filename is required.">>)
          ELSE [@ EXCEPT !.pc = "open", !.safe_filename = safe_filename]]
  /\ UNCHANGED <<dirs, dir_mode, files, inode, started>>

\* destination_path.open("wb"): creates the file or truncates the one there.
Open(s) ==
  /\ req[s].pc = "open"
  /\ \E io \in {"ok", "OSError"} :
       LET name == req[s].safe_filename
           path == DestinationPath(dirs, name).path
       IN IF io = "ok" /\ CanOpen(dirs, name)
            THEN LET i == IF path \in DOMAIN files THEN files[path] ELSE FreshIno(inode)
                 IN /\ files' = (path :> i) @@ files
                    /\ inode' = (i :> <<>>) @@ inode
                    /\ req' = [req EXCEPT ![s] =
                          [@ EXCEPT !.pc = "read", !.opened = TRUE,
                                    !.overlapped =
                                      \E t \in Slots \ {s} : req[t].out_file # NoFile,
                                    !.out_file = [ino |-> i, pos |-> 0]]]
          ELSE /\ req' = [req EXCEPT ![s] = [Raised(@, "open") EXCEPT !.pc = "cleanup"]]
               /\ UNCHANGED <<files, inode>>
  /\ UNCHANGED <<dirs, dir_mode, started>>

\* The close forgotten: the handle stays open.
CloseOut_Leak(r) == r

\* out_file.close(), explicit or on leaving the with block.
CloseOut(r) == [r EXCEPT !.out_file = NoFile]

\* chunk = await file.read(chunk_size); an empty chunk breaks the loop.
Read(s) ==
  /\ req[s].pc = "read"
  /\ LET r == [req[s] EXCEPT !.reads = @ + 1]
         left == Len(r.body) - r.rpos
     IN \/ /\ left = 0
           /\ req' = [req EXCEPT ![s] = [r EXCEPT !.pc = "exit_with", !.chunk = <<>>]]
           /\ UNCHANGED inode
        \/ \E k \in 1..Min(chunk_size, left) :
             /\ req' = [req EXCEPT ![s] =
                   [r EXCEPT !.pc = "count", !.rpos = @ + k,
                             !.chunk = SubSeq(r.body, r.rpos + 1, r.rpos + k)]]
             /\ UNCHANGED inode
        \/ /\ req' = [req EXCEPT ![s] = [CloseOut(Raised(r, "read")) EXCEPT !.pc = "cleanup"]]
           /\ inode' = Collect(files, req', inode)
  /\ UNCHANGED <<dirs, dir_mode, files, started>>

\* The limit check taken out of the loop.
OverLimit_Never(total) == FALSE

\* if total_written > MAX_VIDEO_SIZE_BYTES
OverLimit(total) == total > MAX_VIDEO_SIZE_BYTES

\* total_written += len(chunk), by a slip: total_written = len(chunk).
CountChunk_Reset(total, chunk) == Len(chunk)

\* total_written += len(chunk) left out: the total stays where it was.
CountChunk_Skip(total, chunk) == total

\* total_written += len(chunk)
CountChunk(total, chunk) == total + Len(chunk)

\* total_written += len(chunk), then the limit check.
Count(s) ==
  /\ req[s].pc = "count"
  /\ LET total == CountChunk(req[s].total_written, req[s].chunk)
     IN req' = [req EXCEPT ![s] =
          [@ EXCEPT !.total_written = total,
                    !.pc = IF OverLimit(total) THEN "over_close" ELSE "write"]]
  /\ UNCHANGED <<dirs, dir_mode, files, inode, started>>

\* out_file.write(chunk)
Write(s) ==
  /\ req[s].pc = "write"
  /\ LET h == req[s].out_file
     IN \/ /\ inode' = [inode EXCEPT ![h.ino] = WriteAt(@, h.pos, req[s].chunk)]
           /\ req' = [req EXCEPT ![s] =
                 [@ EXCEPT !.pc = "read", !.chunk = <<>>,
                           !.out_file = [h EXCEPT !.pos = @ + Len(req[s].chunk)]]]
        \/ /\ req' = [req EXCEPT ![s] = [CloseOut(Raised(@, "write")) EXCEPT !.pc = "cleanup"]]
           /\ inode' = Collect(files, req', inode)
  /\ UNCHANGED <<dirs, dir_mode, files, started>>

\* The unlink forgotten: the partial file stays.
Unlink_Keep(fs, ds, name, io) == fs

\* The unlink let loose on the directory: every file in it goes.
Unlink_All(fs, ds, name, io) == EmptyMap

\* destination_path.unlink(missing_ok=True) inside try/except Exception: pass.
\* io is the outcome of the system call when there is a file to delete.
Unlink(fs, ds, name, io) ==
  LET r == DestinationPath(ds, name)
  IN IF r.ok /\ r.path \in DOMAIN fs /\ io = "ok" THEN Remove(fs, r.path) ELSE fs

HasFile(fs, ds, name) ==
  LET r == DestinationPath(ds, name) IN r.ok /\ r.path \in DOMAIN fs

\* The handlers without their unlink: the request goes on as next.
BestEffortUnlink_Skip(s, next) ==
  /\ files' = files
  /\ req' = [req EXCEPT ![s] = next]
  /\ inode' = Collect(files', req', inode)

\* try: destination_path.unlink(missing_ok=True) / except Exception: pass, after
\* which the request goes on as next.
BestEffortUnlink(s, next) ==
  \E io \in {"ok", "OSError"} :
    /\ io = "OSError" => HasFile(files, dirs, req[s].safe_filename)
    /\ files' = Unlink(files, dirs, req[s].safe_filename, io)
    /\ req' = [req EXCEPT ![s] = [next EXCEPT !.unlink_failed = (io = "OSError")]]
    /\ inode' = Collect(files', req', inode)

\* Over the limit: out_file.close(); an exception of close() leaves the with
\* block for the except Exception handler.
OverClose(s) ==
  /\ req[s].pc = "over_close"
  /\ \E io \in {"ok", "OSError"} :
       req' = [req EXCEPT ![s] =
         IF io = "ok" THEN [CloseOut(@) EXCEPT !.pc = "over_unlink"]
         ELSE [CloseOut(Raised(@, "close_out")) EXCEPT !.pc = "cleanup"]]
  /\ inode' = Collect(files, req', inode)
  /\ UNCHANGED <<dirs, dir_mode, files, started>>

\* Over the limit: the best-effort unlink, then raise the 413, which the
\* except HTTPException handler re-raises.
OverUnlink(s) ==
  /\ req[s].pc = "over_unlink"
  /\ BestEffortUnlink(s, [req[s] EXCEPT !.pc = "finally",
                                        !.pending = HTTP_413_REQUEST_ENTITY_TOO_LARGE,
                                        !.detail = TooLargeDetail])
  /\ UNCHANGED <<dirs, dir_mode, started>>

\* The loop ended by break: leaving the with block closes out_file.
ExitWith(s) ==
  /\ req[s].pc = "exit_with"
  /\ \E io \in {"ok", "OSError"} :
       req' = [req EXCEPT ![s] =
         IF io = "ok" THEN [CloseOut(@) EXCEPT !.pc = "finally", !.pending = HTTP_200_OK]
         ELSE [CloseOut(Raised(@, "close_out")) EXCEPT !.pc = "cleanup"]]
  /\ inode' = Collect(files, req', inode)
  /\ UNCHANGED <<dirs, dir_mode, files, started>>

\* except Exception: best-effort unlink, then raise the 500.
Cleanup(s) ==
  /\ req[s].pc = "cleanup"
  /\ BestEffortUnlink(s, [req[s] EXCEPT !.pc = "finally",
                                        !.pending = HTTP_500_INTERNAL_SERVER_ERROR,
                                        !.detail = <<"Failed to save uploaded file: ", req[s].io_error>>])
  /\ UNCHANGED <<dirs, dir_mode, started>>

\* finally: await file.close(). An exception of close() replaces the pending
\* result and reaches the client as an unhandled 500.
Finally(s) ==
  /\ req[s].pc = "finally"
  /\ \E io \in {"ok", "OSError"} :
       req' = [req EXCEPT ![s] =
         LET r == [@ EXCEPT !.input_closed = TRUE]
         IN IF io = "OSError"
              THEN Respond(Raised(r, "close_in"), HTTP_500_INTERNAL_SERVER_ERROR,
                           InternalServerError)
            ELSE IF r.pending = HTTP_200_OK
              THEN Respond([r EXCEPT !.size_bytes = r.total_written],
                           HTTP_200_OK, <<"Upload successful">>)
            ELSE Respond(r, r.pending, r.detail)]
  /\ UNCHANGED <<dirs, dir_mode, files, inode, started>>

\* The response is sent and the request, with its locals, is gone.
Discard(s) ==
  /\ req[s].pc = "done"
  /\ req' = [req EXCEPT ![s] = Idle]
  /\ UNCHANGED <<dirs, dir_mode, files, inode, started>>

\* One step of the handler in slot s.
Step(s) ==
  \/ Precheck(s)
  \/ Prepare(s)
  \/ Sanitize(s)
  \/ Open(s)
  \/ Read(s)
  \/ Count(s)
  \/ Write(s)
  \/ OverClose(s)
  \/ OverUnlink(s)
  \/ ExitWith(s)
  \/ Cleanup(s)
  \/ Finally(s)
  \/ Discard(s)

\* The client sends a request, which the lowest free slot s takes.
Arrive(s, limit, headers, filenames, lens) ==
  /\ req[s].pc = "idle"
  /\ \A t \in Slots : t < s => req[t].pc # "idle"
  /\ started < limit
  /\ \E header \in headers, filename \in filenames, len \in lens :
       Receive(s, header, filename, len)

\* Requests served one after the other.
Next ==
  \/ Arrive(1, MaxRequests, Headers, FewNames, StreamLens)
  \/ Step(1)

Spec == Init /\ [][Next]_vars

\* Requests of every way out of the handler, one after the other: refused for
\* the header (400, 413), for the filename (400), unable to open (".." is a
\* directory), and streams of every length.
LiveHeaders == {None, Numeral(MAX_VIDEO_SIZE_BYTES + 1), <<"x">>}
LiveNames == {<<>>, <<"a">>, <<".", ".">>}

NextLive ==
  \/ Arrive(1, MaxRequests, LiveHeaders, LiveNames, StreamLens)
  \/ Step(1)

\* The event loop keeps running a handler that can take a step: every awaited
\* call of the handler returns or raises.
SpecLive == Init /\ [][NextLive]_vars /\ WF_vars(Step(1))

\* A single request, over every filename of the bounded alphabet.
NextNames ==
  \/ Arrive(1, 1, {None}, Names, {1, MAX_VIDEO_SIZE_BYTES + 1})
  \/ Step(1)

SpecNames == Init /\ [][NextNames]_vars

\* Concurrent requests: both handler slots serve requests, and their steps
\* interleave at every statement.
ConcHeaders == {None}
ConcNames == {<<"a">>, <<"b">>}
ConcLens == {MAX_VIDEO_SIZE_BYTES, MAX_VIDEO_SIZE_BYTES + 1}

NextConc ==
  \E s \in Slots :
    \/ Arrive(s, Cardinality(Slots), ConcHeaders, ConcNames, ConcLens)
    \/ Step(s)

\* The service has run before: the upload directory is there, owner-only.
InitConc ==
  /\ dirs = {Root, UPLOAD_DIR}
  /\ dir_mode = "0700"
  /\ files = EmptyMap
  /\ inode = EmptyMap
  /\ started = 0
  /\ req = [s \in Slots |-> Idle]

SpecConc == InitConc /\ [][NextConc]_vars

\* Concurrent requests of every fate: accepted, refused by the precheck for
\* their declared size, refused for an empty filename, over the limit.
FrameHeaders == {None, Numeral(MAX_VIDEO_SIZE_BYTES + 1)}
FrameNames == {<<>>, <<"a">>, <<"b">>}
FrameLens == {1, MAX_VIDEO_SIZE_BYTES + 1}

NextFrame ==
  \E s \in Slots :
    \/ Arrive(s, Cardinality(Slots), FrameHeaders, FrameNames, FrameLens)
    \/ Step(s)

SpecFrame == InitConc /\ [][NextFrame]_vars

\* ================================================================ properties
\* The request served sequentially (Spec, SpecNames) is the one in slot 1.
Finished(r) == r.pc = "done"
Sanitized(r) == r.safe_filename # <<>>
NoIOFailure(r) == r.io_error = "" /\ ~r.unlink_failed

\* UPLOAD_DIR/<sanitized filename>
TargetPath(r) == Append(UPLOAD_DIR, r.safe_filename)
Stored(path) == path \in DOMAIN files
Content(path) == inode[files[path]]

\* C1: an upload handed to upload_video with a filename that survives
\* sanitization and a stream of at most MAX_VIDEO_SIZE_BYTES bytes, and which
\* meets no I/O failure, ends in Success; the file at
\* UPLOAD_DIR/<sanitized filename> then holds exactly the bytes of the stream in
\* the order read, and size_bytes is their number.
C1_WithinLimitStoredExactly ==
  LET r == req[1]
  IN (Finished(r) /\ r.entered /\ SafeFilename(r.filename) # <<>> /\ NoIOFailure(r)
        /\ Len(r.body) <= MAX_VIDEO_SIZE_BYTES)
       => /\ r.status_code = HTTP_200_OK
          /\ r.size_bytes = Len(r.body)
          /\ Stored(TargetPath(r))
          /\ Content(TargetPath(r)) = r.body

\* C1 witness: a stream of exactly the maximum, read in several chunks, stored.
C1_Witness ==
  LET r == req[1]
  IN /\ Finished(r) /\ r.status_code = HTTP_200_OK
     /\ Len(r.body) = MAX_VIDEO_SIZE_BYTES /\ r.reads >= 3
     /\ Stored(TargetPath(r)) /\ Content(TargetPath(r)) = r.body

\* The Content-Length header is present and int() reads it as n.
Declares(r, n) == r.header # None /\ PyInt(r.header).ok /\ PyInt(r.header).val = n
DeclaredOver(r) ==
  r.header # None /\ PyInt(r.header).ok /\ PyInt(r.header).val > MAX_VIDEO_SIZE_BYTES
WellFormedHeader(r) == r.header = None \/ PyInt(r.header).ok

\* The name the request's file would be stored under.
TargetOf(r) == Append(UPLOAD_DIR, SafeFilename(r.filename))

\* An upload of more than the maximum, otherwise in order: a header that is
\* absent or a number, a filename that survives sanitization, no I/O failure.
OverSizedUpload(r) ==
  /\ Len(r.body) > MAX_VIDEO_SIZE_BYTES
  /\ WellFormedHeader(r)
  /\ SafeFilename(r.filename) # <<>>
  /\ NoIOFailure(r)

\* C2 as stated: every upload of more than MAX_VIDEO_SIZE_BYTES, declared or
\* discovered while streaming, fails with 413, and once it has finished no file
\* with the target sanitized filename exists, even if one existed before.
C2_OverSizedLeavesNoFileOfThatName ==
  LET r == req[1]
  IN (Finished(r) /\ OverSizedUpload(r))
       => r.status_code = HTTP_413_REQUEST_ENTITY_TOO_LARGE /\ ~Stored(TargetOf(r))

\* C2 amended: every such upload fails with 413; when the excess is discovered
\* while streaming, no file with the target name exists afterwards; when it is
\* declared, the precheck rejects the request before it opens, reads or deletes
\* anything, and that step leaves directories and files as they were.
C2_OverSizedRejected ==
  LET r == req[1]
  IN (Finished(r) /\ OverSizedUpload(r))
       => /\ r.status_code = HTTP_413_REQUEST_ENTITY_TOO_LARGE
          /\ r.entered => ~Stored(TargetOf(r))
          /\ ~r.entered => DeclaredOver(r) /\ ~r.opened /\ r.reads = 0

C2_PrecheckTouchesNothing ==
  (req[1].pc = "precheck" /\ req'[1].pc = "done")
    => UNCHANGED <<dirs, dir_mode, files, inode>>

C2_Amended == [](C2_OverSizedRejected) /\ [][C2_PrecheckTouchesNothing]_vars

\* C2 witness: the second request streamed past the limit, was refused with 413,
\* and its destination is gone.
C2_Witness ==
  LET r == req[1]
  IN /\ Finished(r) /\ OverSizedUpload(r) /\ r.id = 2 /\ r.opened /\ r.reads >= 2
     /\ r.status_code = HTTP_413_REQUEST_ENTITY_TOO_LARGE /\ ~Stored(TargetOf(r))

\* C3 as stated: after a request that ends 400, 413 or 500, whatever failed,
\* the destination it opened is not on disk, provided the best-effort delete
\* did not fail.
C3_NoFileAfterFailure ==
  LET r == req[1]
  IN (Finished(r) /\ r.status_code # HTTP_200_OK /\ r.opened /\ ~r.unlink_failed)
       => ~Stored(TargetPath(r))

\* C4 as stated: once handed to upload_video, a request closes its input stream
\* (file.close() is called) on every exit path.
C4_InputClosedOnEveryExit ==
  LET r == req[1]
  IN (Finished(r) /\ r.entered) => r.input_closed

\* C5: at the size boundary, a request (with a filename that survives
\* sanitization and no I/O failure) whose Content-Length is exactly
\* MAX_VIDEO_SIZE_BYTES and whose stream has that many bytes succeeds, and any
\* stream of exactly the maximum is accepted; one byte more, declared in
\* Content-Length or counted while streaming, fails with 413.
C5_SizeBoundary ==
  LET r == req[1]
      max == MAX_VIDEO_SIZE_BYTES
      \* otherwise in order: a filename that survives sanitization, no I/O failure
      inOrder == SafeFilename(r.filename) # <<>> /\ NoIOFailure(r)
      \* the header is absent or declares a size within the maximum
      withinDeclared == r.header = None \/ \E n \in 0..max : Declares(r, n)
  IN Finished(r) =>
       /\ (Declares(r, max) /\ Len(r.body) = max /\ inOrder)
            => r.status_code = HTTP_200_OK /\ r.size_bytes = max
       /\ (withinDeclared /\ Len(r.body) = max /\ inOrder)
            => r.status_code = HTTP_200_OK /\ r.size_bytes = max
       /\ Declares(r, max + 1) => r.status_code = HTTP_413_REQUEST_ENTITY_TOO_LARGE
       /\ (withinDeclared /\ Len(r.body) = max + 1 /\ inOrder)
            => r.status_code = HTTP_413_REQUEST_ENTITY_TOO_LARGE

\* C5 witness: Content-Length and stream both exactly the maximum, accepted.
C5_Witness ==
  LET r == req[1]
  IN /\ Finished(r) /\ Declares(r, MAX_VIDEO_SIZE_BYTES)
     /\ Len(r.body) = MAX_VIDEO_SIZE_BYTES /\ r.total_written = MAX_VIDEO_SIZE_BYTES
     /\ r.status_code = HTTP_200_OK

\* The header reads as a non-negative integer.
NonNegativeInteger(text) == PyInt(text).ok /\ PyInt(text).val >= 0
PrecheckDone(r) == r.pc \notin {"idle", "precheck"}

\* C6 as stated: the precheck rejects with 400 every Content-Length that is
\* present but no non-negative integer, negative numbers included; it returns a
\* size only for a non-negative integer within the maximum, and None only when
\* the header is absent.
C6_PrecheckRejectsNonNatural ==
  LET r == req[1]
  IN PrecheckDone(r) =>
       /\ (r.header # None /\ ~NonNegativeInteger(r.header))
            => Finished(r) /\ ~r.entered /\ r.status_code = HTTP_400_BAD_REQUEST
       /\ r.declared.some
            => /\ r.header # None /\ NonNegativeInteger(r.header)
               /\ r.declared.val = PyInt(r.header).val
               /\ r.declared.val <= MAX_VIDEO_SIZE_BYTES
       /\ (~r.declared.some /\ (r.entered \/ r.pc = "prepare")) => r.header = None

\* C7: a declared size over the maximum ends the request with 413 at the
\* precheck: no read of the content stream, no directory preparation, no
\* destination opened; and whatever was declared, the receive loop still
\* counts: no chunk that takes the total over the maximum is written, and no
\* upload of more than the maximum is reported as Success.
C7_DeclaredOverRejectedFirst ==
  LET r == req[1]
  IN /\ (PrecheckDone(r) /\ DeclaredOver(r))
          => /\ Finished(r) /\ r.status_code = HTTP_413_REQUEST_ENTITY_TOO_LARGE
             /\ r.reads = 0 /\ ~r.entered /\ ~r.opened /\ r.out_file = NoFile
             /\ r.id = 1 => (dir_mode = "default" /\ files = EmptyMap)
     /\ r.pc = "write" => r.total_written <= MAX_VIDEO_SIZE_BYTES
     /\ (Finished(r) /\ r.status_code = HTTP_200_OK)
          => Len(r.body) <= MAX_VIDEO_SIZE_BYTES

\* C7 witness: a request with a non-empty stream, refused for its header alone.
C7_Witness ==
  LET r == req[1]
  IN /\ Finished(r) /\ DeclaredOver(r) /\ Len(r.body) > 0
     /\ r.status_code = HTTP_413_REQUEST_ENTITY_TOO_LARGE /\ r.reads = 0

\* The final path component of a name: its longest suffix without a separator.
NoSeparator(name) == \A i \in 1..Len(name) : name[i] # "/"
FinalComponent(name) ==
  CHOOSE c \in {SubSeq(name, i, Len(name)) : i \in 1..(Len(name) + 1)} :
    /\ NoSeparator(c)
    /\ Len(c) = Len(name) \/ name[Len(name) - Len(c)] = "/"

\* t is s without its leading and trailing whitespace.
IsTrimOf(t, s) ==
  \E i \in 1..(Len(s) + 1), j \in 0..Len(s) :
    /\ t = SubSeq(s, i, j)
    /\ \A k \in 1..Len(s) : (k < i \/ k > j) => IsSpace(s[k])
    /\ t # <<>> => ~IsSpace(t[1]) /\ ~IsSpace(t[Len(t)])

\* Nothing is left of the filename once directories and whitespace are gone.
EmptyAfterSanitization(filename) ==
  filename = None \/ IsTrimOf(<<>>, FinalComponent(filename))

\* C8: a request whose filename is empty after sanitization (empty, missing, or
\* ending in a separator) and which reaches the filename check (precheck and
\* directory preparation passed) is rejected with 400; no step of such a
\* request creates or modifies a file.
C8_Rejected400 ==
  LET r == req[1]
  IN (Finished(r) /\ EmptyAfterSanitization(r.filename) /\ r.entered /\ r.io_error = "")
       => r.status_code = HTTP_400_BAD_REQUEST /\ ~r.opened

C8_NoFileTouched ==
  (req[1].pc # "idle" /\ EmptyAfterSanitization(req[1].filename))
    => UNCHANGED <<files, inode>>

C8_EmptyFilenameRejected == [](C8_Rejected400) /\ [][C8_NoFileTouched]_vars

\* C8 witness: a name of path separators only, refused with 400, nothing stored.
C8_Witness ==
  LET r == req[1]
  IN /\ Finished(r) /\ r.filename = <<"/">>
     /\ r.status_code = HTTP_400_BAD_REQUEST /\ files = EmptyMap

\* Every stored file sits directly in the upload directory.
DirectlyUnderUploadDir == \A path \in DOMAIN files : Parent(path) = UPLOAD_DIR

\* C9 as stated: the sanitized filename is exactly the final path component of
\* the raw name, has no path separator, and every file lands directly under the
\* upload directory.
C9_SafeNameIsFinalComponent ==
  LET r == req[1]
  IN /\ Sanitized(r) => /\ r.safe_filename = FinalComponent(r.filename)
                         /\ NoSeparator(r.safe_filename)
     /\ DirectlyUnderUploadDir

\* C9 amended: the sanitized filename is the final path component of the raw
\* name with leading and trailing whitespace stripped; it has no path
\* separator, and every file lands directly under the upload directory, under
\* that name.
C9_SafeNameIsStrippedFinalComponent ==
  LET r == req[1]
  IN /\ Sanitized(r) => /\ IsTrimOf(r.safe_filename, FinalComponent(r.filename))
                         /\ NoSeparator(r.safe_filename)
     /\ DirectlyUnderUploadDir
     /\ r.pc # "idle" => \A path \in DOMAIN files : path = TargetPath(r)

\* C9 witness: "../a" is stored as "a" in the upload directory.
C9_Witness ==
  LET r == req[1]
  IN /\ Finished(r) /\ r.filename = Traversal /\ r.status_code = HTTP_200_OK
     /\ r.safe_filename = <<"a">> /\ Stored(Append(UPLOAD_DIR, <<"a">>))

\* C10: two overlapping uploads with distinct sanitized filenames, each with a
\* stream within the limit and no I/O failure, both end in Success; each file
\* holds exactly its own request's bytes in order and each size_bytes is its
\* own stream's length.
C10_ConcurrentDistinctNames ==
  LET StoredExactly(r) ==
        /\ r.status_code = HTTP_200_OK
        /\ r.size_bytes = Len(r.body)
        /\ Stored(TargetOf(r))
        /\ Content(TargetOf(r)) = r.body
      InLimit(r) ==
        Finished(r) /\ NoIOFailure(r) /\ Len(r.body) <= MAX_VIDEO_SIZE_BYTES
  IN (InLimit(req[1]) /\ InLimit(req[2])
        /\ SafeFilename(req[1].filename) # SafeFilename(req[2].filename))
       => StoredExactly(req[1]) /\ StoredExactly(req[2])

\* C10 witness: the second upload opened its file while the first had its own
\* open; both are stored.
C10_Witness ==
  /\ \A s \in Slots : Finished(req[s]) /\ req[s].status_code = HTTP_200_OK
                        /\ Len(req[s].body) = MAX_VIDEO_SIZE_BYTES
  /\ req[2].overlapped
  /\ req[1].safe_filename # req[2].safe_filename
  /\ \A s \in Slots : Content(TargetPath(req[s])) = req[s].body

\* ensure_upload_dir_exists raised its 500.
PreparationFailed(r) ==
  r.detail # <<>> /\ r.detail[1] = "Failed to prepare upload directory: "

\* C11 as stated: a failure of the chmod in ensure_upload_dir_exists is never
\* fatal; the preparation raises its 500 only when the directory could not be
\* created.
C11_OnlyMkdirFailureIsFatal ==
  LET r == req[1]
  IN PreparationFailed(r) => r.io_error = "mkdir" /\ UPLOAD_DIR \notin dirs

\* C12: ensure_upload_dir_exists is idempotent. Called, on every request, when
\* the upload directory already exists (and chmod does not raise anything but
\* PermissionError, which is C11's matter), it raises no error, the upload goes
\* on, and directories, files and their contents are as before; a directory
\* that is owner-only stays owner-only.
C12_PrepareIdempotent ==
  [][(req[1].pc = "prepare" /\ UPLOAD_DIR \in dirs /\ req'[1].io_error # "chmod")
       => /\ req'[1].pc = "sanitize"
          /\ req'[1].status_code = 0
          /\ dirs' = dirs /\ files' = files /\ inode' = inode
          /\ dir_mode = "0700" => dir_mode' = "0700"]_vars

\* C12 witness: the second request has passed the preparation of a directory
\* the first one had prepared and stored a file in.
C12_Witness ==
  /\ req[1].id = 2 /\ req[1].pc = "sanitize"
  /\ UPLOAD_DIR \in dirs /\ dir_mode = "0700"
  /\ \E path \in DOMAIN files : Parent(path) = UPLOAD_DIR /\ Content(path) = Body(1, MAX_VIDEO_SIZE_BYTES)

\* The error kind the taxonomy assigns to a failed request, from its original
\* failure: 400 for a malformed header or an empty filename, 413 for a declared
\* or measured size over the ceiling, 500 for directory or file I/O failure.
ErrorKind(r) ==
  IF ~WellFormedHeader(r) THEN HTTP_400_BAD_REQUEST
  ELSE IF DeclaredOver(r) THEN HTTP_413_REQUEST_ENTITY_TOO_LARGE
  ELSE IF r.io_error \in {"mkdir", "chmod"} THEN HTTP_500_INTERNAL_SERVER_ERROR
  ELSE IF SafeFilename(r.filename) = <<>> THEN HTTP_400_BAD_REQUEST
  ELSE IF OverLimit(r.total_written) THEN HTTP_413_REQUEST_ENTITY_TOO_LARGE
  ELSE HTTP_500_INTERNAL_SERVER_ERROR

\* C13 as stated: every failed request is answered by a structured error
\* {detail: string} with the status of its kind, and no failure of a best-effort
\* cleanup step (deleting the partial file, closing the destination file while
\* handling the excess) changes the kind reported for the original failure.
C13_StructuredErrorOfItsKind ==
  LET r == req[1]
  IN (Finished(r) /\ r.status_code # HTTP_200_OK)
       => /\ r.detail # InternalServerError
          /\ r.status_code = ErrorKind(r)

\* The running total of the request has exceeded the maximum and the request
\* is still being handled.
HandlingExcess(r) == OverLimit(r.total_written) /\ r.pc \notin {"done", "idle"}

\* C14, states: once the total has exceeded the maximum, the destination is
\* closed before the delete, and closed and deleted (unless the best-effort
\* delete failed) before the 413 is raised; provided out_file.close() itself
\* does not raise, the request ends 413 with the configured maximum in the
\* detail, whether or not the delete succeeded.
C14_CloseDeleteThen413 ==
  LET r == req[1]
  IN /\ r.pc = "over_unlink" => r.out_file = NoFile /\ OverLimit(r.total_written)
     /\ (r.pc = "finally" /\ r.pending = HTTP_413_REQUEST_ENTITY_TOO_LARGE)
          => /\ r.out_file = NoFile
             /\ ~r.unlink_failed => ~Stored(TargetPath(r))
     /\ (Finished(r) /\ OverLimit(r.total_written) /\ r.io_error = "")
          => /\ r.status_code = HTTP_413_REQUEST_ENTITY_TOO_LARGE
             /\ r.detail = TooLargeDetail
             /\ \E i \in 1..Len(r.detail) :
                  SubSeq(r.detail, i, i + Len(Numeral(MAX_VIDEO_SIZE_BYTES)) - 1)
                    = Numeral(MAX_VIDEO_SIZE_BYTES)

\* C14, steps: once the total has exceeded the maximum, no step of the request
\* reads from the content stream or writes to a file.
C14_NoReadNoWriteAfterExcess ==
  HandlingExcess(req[1])
    => /\ req'[1].reads = req[1].reads
       /\ req'[1].rpos = req[1].rpos
       /\ \A i \in DOMAIN inode \cap DOMAIN inode' : inode'[i] = inode[i]
       /\ req[1].pc = "over_close" => req'[1].pc \in {"over_unlink", "cleanup"}
       /\ req[1].pc = "over_unlink" => req'[1].pc = "finally"

\* C14: when the running total first exceeds MAX_VIDEO_SIZE_BYTES, the loop
\* reads and writes nothing more; it closes the destination, then deletes it
\* best-effort, then fails with 413 whose detail reports the maximum.
C14_StopAtExcess == [](C14_CloseDeleteThen413) /\ [][C14_NoReadNoWriteAfterExcess]_vars

\* C14 witness: a stream with bytes still unread when the total exceeded the
\* maximum; the request ended 413 and its partial file is gone.
C14_Witness ==
  LET r == req[1]
  IN /\ Finished(r) /\ r.status_code = HTTP_413_REQUEST_ENTITY_TOO_LARGE
     /\ r.reads >= 2 /\ r.rpos < Len(r.body) /\ r.total_written = r.rpos
     /\ r.opened /\ ~Stored(TargetPath(r))

\* The first exception of the request came from opening the destination,
\* reading a chunk or writing a chunk.
FailedInReceive(r) == r.io_error \in {"open", "read", "write"}

\* C15: after an I/O failure while opening the destination, reading a chunk or
\* writing a chunk, the destination file is closed if it was open, the partial
\* file is deleted unless the best-effort delete itself failed, and the request
\* ends 500, never Success, with the cause in its detail (as long as closing
\* the input stream does not raise as well and replace the response).
C15_IOFailureCleansUpAnd500 ==
  LET r == req[1]
  IN FailedInReceive(r)
       => /\ r.pc \in {"cleanup", "finally", "done"}
          /\ r.out_file = NoFile
          /\ (r.pc \in {"finally", "done"} /\ ~r.unlink_failed) => ~Stored(TargetPath(r))
          /\ Finished(r)
               => /\ r.status_code = HTTP_500_INTERNAL_SERVER_ERROR
                  /\ r.detail # InternalServerError
                       => r.detail = <<"Failed to save uploaded file: ", r.io_error>>

\* C15 witness: the second write failed after the first chunk was on disk; the
\* request ended 500 naming the write, and the partial file is gone.
C15_Witness ==
  LET r == req[1]
  IN /\ Finished(r) /\ r.io_error = "write" /\ r.reads >= 2
     /\ r.status_code = HTTP_500_INTERNAL_SERVER_ERROR
     /\ r.detail = <<"Failed to save uploaded file: ", "write">>
     /\ ~Stored(TargetPath(r))

\* C16 as stated: when a request of a sequence of non-overlapping requests has
\* finished, the upload directory holds under its filename exactly that
\* request's content if it succeeded (nothing of an earlier, longer file is
\* left), and no file under that name if it opened the destination and failed
\* (the best-effort delete not failing).
C16_LastRequestDecidesTheFile ==
  LET r == req[1]
  IN Finished(r)
       => /\ r.status_code = HTTP_200_OK
               => Stored(TargetPath(r)) /\ Content(TargetPath(r)) = r.body
          /\ (r.opened /\ r.status_code # HTTP_200_OK /\ ~r.unlink_failed)
               => ~Stored(TargetPath(r))

\* The request is inside the with block, its destination open.
InReceiveLoop(r) == r.pc \in {"read", "count", "write", "over_close", "exit_with"}

\* The length of the chunk that has been counted in total_written but not
\* written: the one between the limit check and the write, or the one that
\* crossed the limit.
CountedNotWritten(r) == IF r.pc \in {"write", "over_close"} THEN Len(r.chunk) ELSE 0

\* C17: in every state of the receive loop the bytes written to the destination
\* (the position of out_file, which is the length of the file) are at most
\* MAX_VIDEO_SIZE_BYTES and equal total_written minus the chunk counted but not
\* yet written; a chunk goes to the write only within the limit, and the chunk
\* that crosses it is never written: no file ever holds more than the maximum.
C17_WrittenWithinLimit ==
  LET r == req[1]
  IN /\ InReceiveLoop(r)
          => /\ r.out_file # NoFile
             /\ r.out_file.pos <= MAX_VIDEO_SIZE_BYTES
             /\ r.out_file.pos = r.total_written - CountedNotWritten(r)
             /\ Len(inode[r.out_file.ino]) = r.out_file.pos
             /\ r.pc = "write" => r.total_written <= MAX_VIDEO_SIZE_BYTES
             /\ r.pc = "over_close" => r.total_written > MAX_VIDEO_SIZE_BYTES
     /\ \A i \in DOMAIN inode : Len(inode[i]) <= MAX_VIDEO_SIZE_BYTES

\* C17 witness: the file holds exactly the maximum and the chunk that crossed
\* the limit has been counted, not written.
C17_Witness ==
  LET r == req[1]
  IN /\ r.pc = "over_close" /\ r.chunk # <<>>
     /\ r.out_file.pos = MAX_VIDEO_SIZE_BYTES
     /\ r.total_written = MAX_VIDEO_SIZE_BYTES + Len(r.chunk)
     /\ Len(Content(TargetPath(r))) = MAX_VIDEO_SIZE_BYTES

\* C18, states: a request has no outcome until it has finished and then exactly
\* one of Success, 400, 413 and 500; its loop has called file.read at most
\* MAX_VIDEO_SIZE_BYTES + 1 times, whatever the length of the stream.
C18_OneOutcomeBoundedReads ==
  LET r == req[1]
  IN /\ r.reads <= MAX_VIDEO_SIZE_BYTES + 1
     /\ r.pc # "done" => r.status_code = 0
     /\ r.pc = "done" => r.status_code \in {HTTP_200_OK, HTTP_400_BAD_REQUEST,
                                            HTTP_413_REQUEST_ENTITY_TOO_LARGE,
                                            HTTP_500_INTERNAL_SERVER_ERROR}
     /\ r.pc \in {"read", "count", "write"} => r.total_written <= MAX_VIDEO_SIZE_BYTES
     /\ r.pc = "exit_with" => r.rpos = Len(r.body)

\* C18: every request terminates, with exactly one outcome; the receive loop
\* ends at the first empty read or as soon as the running total exceeds the
\* maximum, after at most MAX_VIDEO_SIZE_BYTES + 1 reads, even when the stream
\* has more to give than the loop will ever take.
C18_Terminates ==
  /\ [](C18_OneOutcomeBoundedReads)
  /\ (req[1].pc = "precheck") ~> (req[1].pc = "done")

\* C18 witness: a stream longer than the loop would read was cut off at the
\* MAX_VIDEO_SIZE_BYTES + 1st read, with bytes left unread, and the request
\* has its outcome.
C18_Witness ==
  LET r == req[1]
  IN /\ Finished(r) /\ r.reads = MAX_VIDEO_SIZE_BYTES + 1
     /\ r.rpos < Len(r.body)
     /\ r.status_code = HTTP_413_REQUEST_ENTITY_TOO_LARGE

\* The request refused before it has a destination: by the precheck, or for a
\* filename that is empty after sanitization.
Rejected(r) == ~WellFormedHeader(r) \/ DeclaredOver(r) \/ SafeFilename(r.filename) = <<>>

\* The file at path p is there, with the same content, before and after the step.
Untouched(p) ==
  /\ p \in DOMAIN files /\ p \in DOMAIN files'
  /\ inode'[files'[p]] = inode[files[p]]

\* The step is one of the request in slot s, and it leaves every path but
\* UPLOAD_DIR/<sanitized filename of that request> as it was; if the request
\* is a rejected one it leaves every file as it was.
FrameOf(s) ==
  LET r == IF req[s].pc = "idle" THEN req'[s] ELSE req[s]
  IN req'[s] # req[s]
       => /\ \A p \in DOMAIN files \cup DOMAIN files' : p # TargetOf(r) => Untouched(p)
          /\ Rejected(r) => files' = files /\ inode' = inode

\* C19: under every interleaving of concurrent requests, a request creates,
\* truncates, writes and deletes no path but UPLOAD_DIR/<its own sanitized
\* filename>: the cleanup of a failed request leaves files under other names
\* alone, and a rejected request (precheck, empty filename) leaves every file
\* unchanged.
C19_OnlyOwnDestination == [][\A s \in Slots : FrameOf(s)]_vars

\* C19 witness: a request opened its destination while the other had its own
\* open, failed, and its file is gone, while the file the other stored under
\* another name is whole.
C19_Witness ==
  \E s \in Slots : \E t \in Slots \ {s} :
    /\ Finished(req[s]) /\ req[s].opened /\ req[s].status_code # HTTP_200_OK
    /\ req[s].overlapped \/ req[t].overlapped
    /\ ~Stored(TargetPath(req[s]))
    /\ Finished(req[t]) /\ req[t].status_code = HTTP_200_OK
    /\ TargetPath(req[t]) # TargetPath(req[s])
    /\ Stored(TargetPath(req[t])) /\ Content(TargetPath(req[t])) = req[t].body

====
